---- MODULE Spec2Model ----
(***************************************************************************)
(* Model of the author/book CRUD service: the SQLModel tables and seed     *)
(* data of src/models.py and the FastAPI handlers of src/main.py and       *)
(* src/sqlmodel_book_sample/main.py, over a SQLite store.                  *)
(*                                                                         *)
(* A handler is a coroutine: it gives way to the other requests at every   *)
(* await. Each await is one step of the model: the store access the await  *)
(* waits for, with the statements that run between two awaits.             *)
(*                                                                         *)
(* Optional values (Python "X | None") are sequences of length <= 1:       *)
(* None is <<>> and a present value v is <<v>>.                            *)
(* The seed names are written in Latin letters (the source has them in     *)
(* Japanese script); names are opaque to every handler.                    *)
(***************************************************************************)
EXTENDS Integers, Sequences, FiniteSets, TLC

\* ------------------------------------------------------------------ bounds
\* Largest id a client names in a request.
MaxAuthorId == 3
MaxBookId == 3
\* Number of requests that may be in flight at once.
NumClients == 2
\* Requests that arrive in one run.
MaxRequests == 3
\* Requests that arrive in a run that follows the session handles.
MaxSessions == 2

\* ------------------------------------------------------------ basic values
None == <<>>
Some(v) == <<v>>

HTTP_200_OK == 200
HTTP_404_NOT_FOUND == 404
HTTP_500_INTERNAL_SERVER_ERROR == 500

\* names a client sends for an Author: "" is the empty string
AuthorNames == {"", "Miyazawa"}
\* names a client sends for a Book
BookNames == {"Ginga"}

\* ids a client may name in a request: the seeded ones and the next; an id
\* is unknown while no row has it (never created, or deleted)
AuthorIdInputs == 1 .. MaxAuthorId
BookIdInputs == 1 .. MaxBookId

Max(S) == CHOOSE m \in S : \A x \in S : x <= m

\* ------------------------------------------------------------------- state
VARIABLES
    revision,         \* which main.py serves: "main" (src/main.py) or
                      \* "sample" (src/sqlmodel_book_sample/main.py)
    authors,          \* table author: id -> name
    books,            \* table book:   id -> [name, author_id]
    last,             \* the response sent last and its request, or that a
                      \* request is being handled
    issuedAuthorIds,  \* history: every id the store ever gave to an Author
    issuedBookIds,    \* history: every id the store ever gave to a Book
    inflight,         \* client -> where the handler of its request is, with
                      \* the handler's local variables and its session
    sessions,         \* the session handles: who hands them out, the open
                      \* ones, how many requests have started
    side,             \* side-by-side run: the packaged revision's store,
                      \* handler and last response
    watch             \* what a run follows beside the store: "responses"
                      \* (last), "ids" (the id history), "sessions" (the
                      \* session handles), "side" (the side-by-side run)

vars == <<revision, authors, books, last, issuedAuthorIds, issuedBookIds, inflight,
          sessions, side, watch>>

\* the store as one value
DB == [authors |-> authors, books |-> books]

\* (mutant) the next id is the row count plus one
NextIdByCount(table) == Cardinality(DOMAIN table) + 1

\* ---------------------------------------------------------------- the store
\* SQLite rowid assignment for "id INTEGER PRIMARY KEY" without AUTOINCREMENT:
\* one more than the largest id present, 1 for an empty table.
NextId(table) == IF DOMAIN table = {} THEN 1 ELSE Max(DOMAIN table) + 1

\* A session (unit of work): the objects a handler loaded and assigned to
\* (id -> the row as loaded and the object as it is now), the pending new
\* objects and the objects marked for deletion. flushed: a flush has written
\* changes that no commit has followed yet.
EmptySession ==
    [authors |-> <<>>, books |-> <<>>,
     new_authors |-> <<>>, new_books |-> <<>>,
     deleted_authors |-> {}, deleted_books |-> {}, flushed |-> FALSE]

\* db.get(Model, id): the row with that primary key, or None. A SELECT sees
\* the rows committed so far.
SessionGet(table, id) == IF id \in DOMAIN table THEN Some(table[id]) ELSE None

\* an object that db.get loaded and the handler assigned to
Loaded(row, cur) == [loaded |-> row, cur |-> cur]

\* the session has something a flush would write
Dirty(s) ==
    \/ \E i \in DOMAIN s.authors : s.authors[i].cur # s.authors[i].loaded
    \/ \E i \in DOMAIN s.books : s.books[i].cur # s.books[i].loaded
    \/ s.new_authors # <<>>
    \/ s.new_books # <<>>
    \/ s.deleted_authors # {}
    \/ s.deleted_books # {}

\* the columns of a loaded book that were assigned a different value
Changed(o) == {f \in {"name", "author_id"} : o.cur[f] # o.loaded[f]}

\* UPDATE book SET <changed columns> WHERE id = ...
UpdateRow(row, o) ==
    [f \in {"name", "author_id"} |-> IF f \in Changed(o) THEN o.cur[f] ELSE row[f]]

\* the flush would UPDATE a row that is gone: StaleDataError, the
\* transaction is rolled back and the request answered 500
StaleData(db, s) ==
    \/ \E i \in DOMAIN s.authors :
          s.authors[i].cur # s.authors[i].loaded /\ i \notin DOMAIN db.authors
    \/ \E i \in DOMAIN s.books :
          s.books[i].cur # s.books[i].loaded /\ i \notin DOMAIN db.books

RECURSIVE InsertAll(_, _)
\* INSERT the pending rows in order, each getting the next id
InsertAll(table, rows) ==
    IF rows = <<>> THEN table
    ELSE InsertAll(table @@ (NextId(table) :> Head(rows)), Tail(rows))

\* flush + COMMIT in one transaction: UPDATE the changed columns of the
\* changed rows (a row assigned its loaded value again is not written), INSERT the new rows (authors before books), DELETE the
\* marked ones (books before authors; a DELETE that matches no row only
\* warns).
SessionCommit(db, s) ==
    LET updA == [i \in DOMAIN db.authors |->
                    IF i \in DOMAIN s.authors /\ s.authors[i].cur # s.authors[i].loaded
                    THEN s.authors[i].cur ELSE db.authors[i]]
        updB == [i \in DOMAIN db.books |->
                    IF i \in DOMAIN s.books THEN UpdateRow(db.books[i], s.books[i])
                    ELSE db.books[i]]
        insA == InsertAll(updA, s.new_authors)
        insB == InsertAll(updB, s.new_books)
    IN [authors |-> [i \in DOMAIN insA \ s.deleted_authors |-> insA[i]],
        books   |-> [i \in DOMAIN insB \ s.deleted_books |-> insB[i]]]

\* (mutant) close() commits what is pending instead of rolling it back
SessionCloseCommits(db, s) == IF StaleData(db, s) THEN db ELSE SessionCommit(db, s)

\* leaving "async with AsyncSession(engine)": close() rolls back whatever was
\* not committed
SessionClose(db, s) == db

\* the request-scoped session: one new session per request, closed on exit
get_db == EmptySession

\* (mutant) the relationship has no delete cascade
SessionDeleteAuthorNoCascade(db, s, id) ==
    [s EXCEPT !.deleted_authors = @ \cup {id}]

\* (mutant) the cascade reaches every book, whoever its author is
SessionDeleteAuthorEveryBook(db, s, id) ==
    [s EXCEPT !.deleted_authors = @ \cup {id},
              !.deleted_books = @ \cup DOMAIN db.books]

\* session.delete(author) with cascade="delete" on Author.books: the
\* author's books are loaded and marked for deletion with it
SessionDeleteAuthor(db, s, id) ==
    [s EXCEPT !.deleted_authors = @ \cup {id},
              !.deleted_books = @ \cup {b \in DOMAIN db.books :
                                          db.books[b].author_id = Some(id)}]

SessionDeleteBook(db, s, id) == [s EXCEPT !.deleted_books = @ \cup {id}]

\* ------------------------------------------------------- response records
AuthorGet(id, name) == [id |-> id, name |-> name]
\* BookGet.author_id is a plain int: the stored optional is unwrapped; a row
\* without author_id does not validate
BookValid(book) == book.author_id # None
BookGet(id, book) == [id |-> id, name |-> book.name, author_id |-> book.author_id[1]]

\* A handler returns or raises, leaving its session as s: the store as the
\* handler leaves it, the response, and the session for the dependency to
\* close.
Return(db, s, body) ==
    [db |-> db, status |-> HTTP_200_OK, detail |-> "", body |-> body, session |-> s]
Raise(db, s, detail) ==
    [db |-> db, status |-> HTTP_404_NOT_FOUND, detail |-> detail, body |-> <<>>,
     session |-> s]
\* an exception no handler catches: the response is 500
Fail(db, s) ==
    [db |-> db, status |-> HTTP_500_INTERNAL_SERVER_ERROR,
     detail |-> "Internal Server Error", body |-> <<>>, session |-> s]

\* A handler reaches its next await: the store as the step leaves it and
\* the handler's position pc with its local variables.
Local(pc, op, req, s) == [pc |-> pc, op |-> op, req |-> req, session |-> s]
Await(db, local) == [db |-> db, local |-> local]

\* "await db.commit()": the session's changes are written and the handler
\* goes on at local, or the flush fails: the failed flush rolls the session
\* back, so that nothing is pending when the exception leaves the handler
Commit(db, s, local) ==
    IF StaleData(db, s) THEN Fail(db, EmptySession)
    ELSE Await(SessionCommit(db, s), local)

\* ------------------------------------------------------------ seed data
SeedAuthor1 == "Natsume Soseki"
SeedAuthor2 == "Izumi Kyoka"
SeedBook1 == "Botchan"
SeedBook2 == "Koya Hijiri"

EmptyDB == [authors |-> <<>>, books |-> <<>>]

\* (mutant) one seed author with one seed book
init_db_one(db) ==
    IF DOMAIN db.authors # {} THEN db
    ELSE SessionCommit(db, [EmptySession EXCEPT
            !.new_authors = <<SeedAuthor1>>,
            !.new_books = <<[name |-> SeedBook1,
                             author_id |-> Some(NextId(db.authors))]>>])

\* (mutant) the seeds are added when the book table has no row
init_db_no_book(db) ==
    IF DOMAIN db.books # {} THEN db
    ELSE LET a1 == NextId(db.authors)
             a2 == a1 + 1
             s == [EmptySession EXCEPT
                     !.new_authors = <<SeedAuthor1, SeedAuthor2>>,
                     !.new_books = <<[name |-> SeedBook1, author_id |-> Some(a1)],
                                     [name |-> SeedBook2, author_id |-> Some(a2)]>>]
         IN SessionClose(SessionCommit(db, s), EmptySession)

\* init_db: when the author table has no row, add two authors and one book
\* for each of them in one commit; otherwise add nothing
init_db(db) ==
    IF DOMAIN db.authors # {} THEN db
    ELSE LET a1 == NextId(db.authors)
             a2 == a1 + 1
             s == [EmptySession EXCEPT
                     !.new_authors = <<SeedAuthor1, SeedAuthor2>>,
                     !.new_books = <<[name |-> SeedBook1, author_id |-> Some(a1)],
                                     [name |-> SeedBook2, author_id |-> Some(a2)]>>]
         IN SessionClose(SessionCommit(db, s), EmptySession)

\* ---------------------------------------------------- handlers, src/main.py
\* A handler with one await is one operator: the store and the request in,
\* the outcome out. A handler with several awaits has one operator for each:
\* the first takes the session the dependency handed in and the request, the
\* others the handler's local variables l; each gives the outcome or the
\* next await.

\* POST /authors, lines 36-38: the new Author is INSERTed and committed
add_author_commit(db, s, author) ==
    Commit(db, [s EXCEPT !.new_authors = Append(@, author.name)],
           [id |-> NextId(db.authors)]
               @@ Local("add_author_refresh", "add_author", author, EmptySession))

\* POST /authors, lines 39-40: refresh reads the row again; it fails when
\* the row is gone
add_author_refresh(db, l) ==
    IF l.id \in DOMAIN db.authors
    THEN Return(db, l.session, Some(AuthorGet(l.id, db.authors[l.id])))
    ELSE Fail(db, l.session)

\* (mutant) the book is added without looking the author up
add_book_get_unchecked(db, s, book) ==
    Await(db, Local("add_book_commit", "add_book", book,
                    [s EXCEPT !.new_books =
                        Append(@, [name |-> book.name,
                                   author_id |-> Some(book.author_id)])]))

\* POST /books, lines 45-49: the author is looked up, then the new Book added
\* to the session
add_book_get(db, s, book) ==
    LET author == SessionGet(db.authors, book.author_id)
    IN IF author = None THEN Raise(db, s, "Unknown author_id")
       ELSE Await(db, Local("add_book_commit", "add_book", book,
                            [s EXCEPT !.new_books =
                                Append(@, [name |-> book.name,
                                           author_id |-> Some(book.author_id)])]))

\* POST /books, line 50: INSERT and COMMIT
add_book_commit(db, l) ==
    Commit(db, l.session,
           [id |-> NextId(db.books)]
               @@ Local("add_book_refresh", "add_book", l.req, EmptySession))

\* POST /books, lines 51-52: refresh
add_book_refresh(db, l) ==
    IF l.id \in DOMAIN db.books
    THEN Return(db, l.session, Some(BookGet(l.id, db.books[l.id])))
    ELSE Fail(db, l.session)

RECURSIVE Ascending(_)
\* the ids of a set in rowid order, as "SELECT ... FROM table" returns them
Ascending(S) ==
    IF S = {} THEN <<>> ELSE Append(Ascending(S \ {Max(S)}), Max(S))

\* the rows of a table in rowid order, each made into its response record
AuthorRows(table) ==
    LET ids == Ascending(DOMAIN table)
    IN [k \in 1 .. Len(ids) |-> AuthorGet(ids[k], table[ids[k]])]

BookRows(table) ==
    LET ids == Ascending(DOMAIN table)
    IN [k \in 1 .. Len(ids) |-> BookGet(ids[k], table[ids[k]])]

\* the class of the session a handler is handed: get_db makes its sessions
\* from sqlalchemy.ext.asyncio.AsyncSession (models.py, line 3), the db
\* fixture of tests/conftest.py from sqlmodel's AsyncSession. Only the
\* latter has the method exec.
SessionClasses == {"sqlalchemy", "sqlmodel"}

\* every row of the book table validates as a BookGet
BooksValid(table) == \A b \in DOMAIN table : BookValid(table[b])

\* GET /authors, line 57: db.exec(...) raises AttributeError on a session
\* without exec, before any query
get_authors(db, class) ==
    IF class = "sqlalchemy" THEN Fail(db, get_db)
    ELSE Return(db, get_db, AuthorRows(db.authors))

\* GET /books, line 62
get_books(db, class) ==
    IF class = "sqlalchemy" \/ ~BooksValid(db.books) THEN Fail(db, get_db)
    ELSE Return(db, get_db, BookRows(db.books))

\* GET /authors of the packaged revision, line 57: db.scalars(...), which
\* every session has
get_authors_sample(db) == Return(db, get_db, AuthorRows(db.authors))

\* GET /books of the packaged revision, line 62
get_books_sample(db) ==
    IF ~BooksValid(db.books) THEN Fail(db, get_db)
    ELSE Return(db, get_db, BookRows(db.books))

\* (mutant) the query has no WHERE clause: the first author is returned
get_author_first(db, author_id) ==
    IF DOMAIN db.authors = {} THEN Raise(db, get_db, "Unknown author_id")
    ELSE LET i == CHOOSE i \in DOMAIN db.authors : \A j \in DOMAIN db.authors : i <= j
         IN Return(db, get_db, Some(AuthorGet(i, db.authors[i])))

\* GET /authors/{author_id}
get_author(db, author_id) ==
    LET author == SessionGet(db.authors, author_id)
    IN IF author = None THEN Raise(db, get_db, "Unknown author_id")
       ELSE Return(db, get_db, Some(AuthorGet(author_id, author[1])))

\* GET /books/{book_id}
get_book(db, book_id) ==
    LET book == SessionGet(db.books, book_id)
    IN IF book = None THEN Raise(db, get_db, "Unknown book_id")
       ELSE IF ~BookValid(book[1]) THEN Fail(db, get_db)
       ELSE Return(db, get_db, Some(BookGet(book_id, book[1])))

AuthorGetWithBooks(id, name, bks) == [id |-> id, name |-> name, books |-> bks]

\* a BookGet with the author the Book's relationship loaded (the row
\* author_id names), if any
BookGetWithAuthor(id, book, author) ==
    [id |-> id, name |-> book.name, author_id |-> book.author_id[1],
     author |-> author]

\* GET /authors/{author_id}/details, lines 83-86: db.scalar sends the SELECT
\* of the author; with a row, selectinload(Author.books) sends a SELECT of
\* its own for the books, and the handler waits for it with the author it
\* has read
author_details_select(db, author_id) ==
    LET author == SessionGet(db.authors, author_id)
    IN IF author = None THEN Raise(db, get_db, "Unknown author_id")
       ELSE Await(db, [author |-> author[1]]
                        @@ Local("author_details_load", "author_details",
                                 [author_id |-> author_id], get_db))

\* lines 84 and 87: SELECT ... FROM book WHERE book.author_id IN (author_id),
\* on the rows committed by then; the response is the author as read before
\* with these books
author_details_load(db, l) ==
    LET loaded == {b \in DOMAIN db.books : db.books[b].author_id = Some(l.req.author_id)}
    IN Return(db, l.session,
              Some(AuthorGetWithBooks(l.req.author_id, l.author,
                                      BookRows([b \in loaded |-> db.books[b]]))))

\* GET /books/{book_id}/details, lines 92-96: db.scalar sends the SELECT of
\* the book; with a row that has an author_id, selectinload(Book.author)
\* sends a SELECT of its own for the author. A Book without author_id has no
\* author to load and does not validate as the response (author_id: int).
book_details_select(db, book_id) ==
    LET book == SessionGet(db.books, book_id)
    IN IF book = None THEN Raise(db, get_db, "Unknown book_id")
       ELSE IF ~BookValid(book[1]) THEN Fail(db, get_db)
       ELSE Await(db, [book |-> book[1]]
                        @@ Local("book_details_load", "book_details",
                                 [book_id |-> book_id], get_db))

\* lines 93 and 97: SELECT ... FROM author WHERE author.id IN (author_id),
\* on the rows committed by then; without such a row the relationship is
\* None, which BookGetWithAuthor accepts
book_details_load(db, l) ==
    LET author == SessionGet(db.authors, l.book.author_id[1])
    IN Return(db, l.session,
              Some(BookGetWithAuthor(l.req.book_id, l.book,
                       IF author = None THEN None
                       ELSE Some(AuthorGet(l.book.author_id[1], author[1])))))

\* (mutant) "if author.name:" -- an empty name counts as not supplied
author_assign_truthy(author_cur, author) ==
    IF author.name # None /\ author.name # Some("") THEN author.name[1] ELSE author_cur

\* (mutant) the name is written as text whether or not it was supplied
author_assign_str(author_cur, author) ==
    IF author.name # None THEN author.name[1] ELSE "None"

\* PATCH /authors, lines 105-106: a supplied name is assigned
author_assign(author_cur, author) ==
    IF author.name # None THEN author.name[1] ELSE author_cur

\* PATCH /authors, lines 102-107: the Author is loaded and assigned to
update_author_get(db, s, author) ==
    LET author_cur == SessionGet(db.authors, author.id)
    IN IF author_cur = None THEN Raise(db, s, "Unknown author.id")
       ELSE Await(db, Local("update_author_commit", "update_author", author,
                            [s EXCEPT !.authors =
                                (author.id :> Loaded(author_cur[1],
                                                     author_assign(author_cur[1], author)))
                                @@ @]))

\* PATCH /authors, line 108: a changed name is written; the UPDATE fails
\* when the row is gone
update_author_commit(db, l) ==
    Commit(db, l.session,
           Local("update_author_refresh", "update_author", l.req, EmptySession))

\* PATCH /authors, lines 109-110: refresh
update_author_refresh(db, l) ==
    IF l.req.id \in DOMAIN db.authors
    THEN Return(db, l.session, Some(AuthorGet(l.req.id, db.authors[l.req.id])))
    ELSE Fail(db, l.session)

\* (mutant) the record is replaced as a whole: an omitted name is written
\* as the empty string
book_assign_replace(book_cur, book) ==
    [name |-> IF book.name # None THEN book.name[1] ELSE "",
     author_id |-> IF book.author_id # None THEN book.author_id
                   ELSE book_cur.author_id]

\* PATCH /books, lines 122-125: the supplied fields are assigned
book_assign(book_cur, book) ==
    [name |-> IF book.name # None THEN book.name[1] ELSE book_cur.name,
     author_id |-> IF book.author_id # None THEN book.author_id
                   ELSE book_cur.author_id]

\* PATCH /books, lines 115-118 (and 122-126 when no author_id came): the
\* Book is loaded; nothing is assigned before the author is looked up
update_book_get(db, s, book) ==
    LET book_cur == SessionGet(db.books, book.id)
    IN IF book_cur = None THEN Raise(db, s, "Unknown book.id")
       ELSE IF book.author_id # None
       THEN Await(db, Local("update_book_author", "update_book", book,
                            [s EXCEPT !.books =
                                (book.id :> Loaded(book_cur[1], book_cur[1])) @@ @]))
       ELSE Await(db, Local("update_book_commit", "update_book", book,
                            [s EXCEPT !.books =
                                (book.id :> Loaded(book_cur[1],
                                                   book_assign(book_cur[1], book)))
                                @@ @]))

\* (mutant) the supplied author_id is assigned without looking the author up
update_book_author_unchecked(db, l) ==
    Await(db, Local("update_book_commit", "update_book", l.req,
                    [l.session EXCEPT !.books[l.req.id].cur =
                        book_assign(@, l.req)]))

\* PATCH /books, lines 119-126: the supplied author is looked up, then the
\* supplied fields are assigned
update_book_author(db, l) ==
    LET author == SessionGet(db.authors, l.req.author_id[1])
    IN IF author = None THEN Raise(db, l.session, "Unknown book.author_id")
       ELSE Await(db, Local("update_book_commit", "update_book", l.req,
                            [l.session EXCEPT !.books[l.req.id].cur =
                                book_assign(@, l.req)]))

\* PATCH /books, line 127: the changed columns are written; the UPDATE
\* fails when the row is gone
update_book_commit(db, l) ==
    Commit(db, l.session,
           Local("update_book_refresh", "update_book", l.req, EmptySession))

\* PATCH /books, lines 128-129: refresh
update_book_refresh(db, l) ==
    IF l.req.id \in DOMAIN db.books /\ BookValid(db.books[l.req.id])
    THEN Return(db, l.session, Some(BookGet(l.req.id, db.books[l.req.id])))
    ELSE Fail(db, l.session)

\* DELETE /authors, lines 134-136: the Author is loaded
delete_author_get(db, s, req) ==
    LET author == SessionGet(db.authors, req.author_id)
    IN IF author = None THEN Raise(db, s, "Unknown author_id")
       ELSE Await(db, Local("delete_author_delete", "delete_author", req, s))

\* DELETE /authors, line 137: db.delete loads the author's books for the
\* cascade and marks them with the author
delete_author_delete(db, l) ==
    Await(db, Local("delete_author_commit", "delete_author", l.req,
                    SessionDeleteAuthor(db, l.session, l.req.author_id)))

\* DELETE /authors, line 138: the marked books and the author are deleted
\* in one commit
delete_author_commit(db, l) ==
    IF StaleData(db, l.session) THEN Fail(db, EmptySession)
    ELSE Return(SessionCommit(db, l.session), EmptySession, None)

\* DELETE /books, lines 143-145: the Book is loaded
delete_book_get(db, s, req) ==
    LET book == SessionGet(db.books, req.book_id)
    IN IF book = None THEN Raise(db, s, "Unknown book_id")
       ELSE Await(db, Local("delete_book_delete", "delete_book", req, s))

\* DELETE /books, line 146: the Book is marked for deletion
delete_book_delete(db, l) ==
    Await(db, Local("delete_book_commit", "delete_book", l.req,
                    SessionDeleteBook(db, l.session, l.req.book_id)))

\* DELETE /books, line 147: the DELETE is committed
delete_book_commit(db, l) ==
    IF StaleData(db, l.session) THEN Fail(db, EmptySession)
    ELSE Return(SessionCommit(db, l.session), EmptySession, None)

\* ------------------------- handlers, src/sqlmodel_book_sample/main.py
\* The packaged revision has the statements of src/main.py in add_author,
\* add_book, delete_author and delete_book, and in the commit and the
\* refresh of update_author and update_book.

\* PATCH /authors of the packaged revision, lines 102-106: the loaded Author
\* is assigned to; there is no db.add (it is in the session since db.get)
update_author_sample_get(db, s, author) ==
    LET author_cur == SessionGet(db.authors, author.id)
    IN IF author_cur = None THEN Raise(db, s, "Unknown author.id")
       ELSE Await(db, Local("update_author_commit", "update_author", author,
                            [s EXCEPT !.authors =
                                (author.id :> Loaded(author_cur[1],
                                    IF author.name # None THEN author.name[1]
                                    ELSE author_cur[1]))
                                @@ @]))

\* PATCH /books of the packaged revision, lines 114-118: the Book is loaded
\* and a supplied name assigned to it before the author is looked up
update_book_sample_get(db, s, book) ==
    LET book_cur == SessionGet(db.books, book.id)
        named == IF book.name # None
                 THEN [book_cur[1] EXCEPT !.name = book.name[1]] ELSE book_cur[1]
    IN IF book_cur = None THEN Raise(db, s, "Unknown book.id")
       ELSE Await(db, Local(IF book.author_id # None THEN "update_book_author"
                            ELSE "update_book_commit",
                            "update_book", book,
                            [s EXCEPT !.books =
                                (book.id :> Loaded(book_cur[1], named)) @@ @]))

\* PATCH /books of the packaged revision, lines 119-123: the supplied author
\* is looked up. db.get flushes first: an assigned name is written inside
\* the session's transaction (no other session sees it before the commit),
\* which fails when the Book's row is gone. A 404 leaves through the
\* session's close with the name still uncommitted; otherwise the Book is
\* given the author
update_book_sample_author(db, l) ==
    LET author_cur == SessionGet(db.authors, l.req.author_id[1])
        flushed == [l.session EXCEPT !.flushed = Dirty(l.session)]
    IN IF StaleData(db, l.session) THEN Fail(db, EmptySession)
       ELSE IF author_cur = None THEN Raise(db, flushed, "Unknown book.author_id")
       ELSE Await(db, Local("update_book_commit", "update_book", l.req,
                            [flushed EXCEPT !.books[l.req.id].cur.author_id =
                                l.req.author_id]))

\* ------------------------------------------------------------- requests
Revisions == {"main", "sample"}

Clients == 1 .. NumClients

\* a client with no request in flight; status is its last response (0: none)
Idle(status) == [pc |-> "idle", status |-> status]

\* the application's own dependency get_db is in force and no request has
\* started: no session is open
NoSessions == [harness |-> "app", open |-> <<>>, started |-> 0]

\* a request is being handled: its response is still to come
Waiting == [op |-> "waiting"]

\* what a request finds when it arrives: the rows, and the ids given out
Found ==
    [authors |-> authors, books |-> books,
     issuedAuthorIds |-> issuedAuthorIds, issuedBookIds |-> issuedBookIds]

\* the response to a request, with what the request found on arrival;
\* pending: the handler left something in its session that no commit wrote
Reply(op, req, found, r) ==
    [op |-> op, req |-> req, found |-> found, status |-> r.status,
     detail |-> r.detail, body |-> r.body, pending |-> Dirty(r.session)]

\* the service has been started on an empty store; w is what the run follows
Started(w) ==
    LET db == init_db(EmptyDB)
    IN /\ authors = db.authors
       /\ books = db.books
       /\ last = [op |-> "init_db", seeded |-> TRUE]
       /\ issuedAuthorIds = DOMAIN db.authors
       /\ issuedBookIds = DOMAIN db.books
       /\ inflight = [c \in Clients |-> Idle(0)]
       /\ sessions = NoSessions
       /\ side = None
       /\ watch = w

\* the service of either revision, its responses watched
Init == revision \in Revisions /\ Started({"responses"})

\* the first step the packaged revision's handler op takes on request req
PackagedArrive(op, db, s, req) ==
    CASE op = "add_author" -> add_author_commit(db, s, req)
      [] op = "add_book" -> add_book_get(db, s, req)
      [] op = "get_authors" -> get_authors_sample(db)
      [] op = "get_books" -> get_books_sample(db)
      [] op = "get_author" -> get_author(db, req.author_id)
      [] op = "get_book" -> get_book(db, req.book_id)
      [] op = "author_details" -> author_details_select(db, req.author_id)
      [] op = "book_details" -> book_details_select(db, req.book_id)
      [] op = "update_author" -> update_author_sample_get(db, s, req)
      [] op = "update_book" -> update_book_sample_get(db, s, req)
      [] op = "delete_author" -> delete_author_get(db, s, req)
      [] op = "delete_book" -> delete_book_get(db, s, req)

\* the step the packaged revision's handler takes from the await l.pc
PackagedResume(db, l) ==
    CASE l.pc = "add_author_refresh" -> add_author_refresh(db, l)
      [] l.pc = "add_book_commit" -> add_book_commit(db, l)
      [] l.pc = "add_book_refresh" -> add_book_refresh(db, l)
      [] l.pc = "author_details_load" -> author_details_load(db, l)
      [] l.pc = "book_details_load" -> book_details_load(db, l)
      [] l.pc = "update_author_commit" -> update_author_commit(db, l)
      [] l.pc = "update_author_refresh" -> update_author_refresh(db, l)
      [] l.pc = "update_book_author" -> update_book_sample_author(db, l)
      [] l.pc = "update_book_commit" -> update_book_commit(db, l)
      [] l.pc = "update_book_refresh" -> update_book_refresh(db, l)
      [] l.pc = "delete_author_delete" -> delete_author_delete(db, l)
      [] l.pc = "delete_author_commit" -> delete_author_commit(db, l)
      [] l.pc = "delete_book_delete" -> delete_book_delete(db, l)
      [] l.pc = "delete_book_commit" -> delete_book_commit(db, l)

\* the store when a handler's step has had the outcome x: at the handler's
\* end the dependency is left and the session closed
Left(x) == IF "local" \in DOMAIN x THEN x.db ELSE SessionClose(x.db, x.session)

\* the side-by-side run after the packaged revision's step with outcome y
\* of its request (op, req; found on its arrival)
Beside(op, req, found, y) ==
    [db |-> Left(y),
     local |-> IF "local" \in DOMAIN y THEN y.local ELSE Idle(y.status),
     reply |-> IF "local" \in DOMAIN y THEN Waiting ELSE Reply(op, req, found, y),
     found |-> found]

\* One step of the handler of client c's request (op, req) has the outcome
\* x: the store is as x leaves it and the handler waits at its next await or
\* has answered. kept: what the request keeps beside the handler's locals
\* (what it found on arrival, its session handle). beside: the side-by-side
\* run after the step. Where the session handles are followed, leaving the
\* dependency is a step of its own.
Outcome(c, op, req, kept, x, beside) ==
    LET db == IF "sessions" \in watch THEN x.db ELSE Left(x)
    IN /\ authors' = db.authors
       /\ books' = db.books
       /\ inflight' = [inflight EXCEPT ![c] =
               IF "local" \in DOMAIN x THEN kept @@ x.local
               ELSE IF "sessions" \in watch
               THEN [pc |-> "returned", op |-> op, status |-> x.status,
                     detail |-> x.detail, handle |-> kept.handle,
                     session |-> x.session]
               ELSE Idle(x.status)]
       /\ last' = IF "responses" \notin watch THEN last
                  ELSE IF "local" \in DOMAIN x THEN Waiting
                  ELSE Reply(op, req, kept.found, x)
       /\ issuedAuthorIds' = IF "ids" \in watch
                             THEN issuedAuthorIds \cup DOMAIN db.authors
                             ELSE issuedAuthorIds
       /\ issuedBookIds' = IF "ids" \in watch
                           THEN issuedBookIds \cup DOMAIN db.books
                           ELSE issuedBookIds
       /\ side' = beside
       /\ UNCHANGED <<revision, watch>>

\* the session the dependency hands to a request: get_db makes a new one;
\* get_test_db of tests/conftest.py hands in the db fixture's session
FixtureSession == 0

\* the class of the session that is handed in
SessionClass == IF sessions.harness = "tests" THEN "sqlmodel" ELSE "sqlalchemy"
Handed ==
    IF sessions.harness = "tests" THEN sessions.open[FixtureSession].pending
    ELSE get_db

\* client c has no request in flight and the run has a request left (where
\* the session handles are followed: the dependency of its request has been
\* entered)
Ready(c) ==
    IF "sessions" \in watch THEN inflight[c].pc = "handler"
    ELSE inflight[c].pc = "idle" /\ sessions.started < MaxRequests

\* a request of client c arrives and its handler runs to its first await or
\* to its end
Arrive(c, op, req, x) ==
    /\ "side" \in watch => side.local.pc = "idle"
    /\ Outcome(c, op, req,
               [found |-> IF "responses" \in watch THEN Found ELSE None,
                handle |-> IF "sessions" \in watch THEN inflight[c].handle ELSE None],
               x,
               IF "side" \in watch
               THEN Beside(op, req, side.db @@ Found,
                           PackagedArrive(op, side.db, get_db, req))
               ELSE side)
    /\ sessions' = IF "sessions" \in watch THEN sessions
                   ELSE [sessions EXCEPT !.started = @ + 1]

\* the handler of client c goes on from the await it waits at
Resume(c, x) ==
    /\ "side" \in watch => side.local.pc # "idle"
    /\ Outcome(c, inflight[c].op, inflight[c].req,
               [found |-> inflight[c].found, handle |-> inflight[c].handle],
               x,
               IF "side" \in watch
               THEN Beside(inflight[c].op, inflight[c].req, side.found,
                           PackagedResume(side.db, side.local))
               ELSE side)
    /\ UNCHANGED sessions

\* SQLite admits one writer at a time. A session that has flushed holds the
\* store's write lock until its commit or its close; a statement of another
\* session that writes waits for the lock (sqlite3's timeout of 5 s is taken
\* to outlast the holder). Reads do not wait. Client c may write:
WriteLockFree(c) ==
    \A d \in Clients \ {c} :
        "session" \in DOMAIN inflight[d] => ~inflight[d].session.flushed

\* process start: lifespan runs init_db before the first request is served
\* seeded: the author table was empty when init_db looked
Startup ==
    /\ \A c \in Clients : inflight[c].pc = "idle"
    /\ authors' = init_db(DB).authors
    /\ books' = init_db(DB).books
    /\ last' = IF "responses" \in watch
               THEN [op |-> "init_db", seeded |-> (DOMAIN authors = {})]
               ELSE last
    /\ issuedAuthorIds' = IF "ids" \in watch
                          THEN issuedAuthorIds \cup DOMAIN init_db(DB).authors
                          ELSE issuedAuthorIds
    /\ issuedBookIds' = IF "ids" \in watch
                        THEN issuedBookIds \cup DOMAIN init_db(DB).books
                        ELSE issuedBookIds
    /\ UNCHANGED <<revision, inflight, sessions, side, watch>>

\* add_author, line 38
AddAuthorCommit(c) ==
    \E name \in AuthorNames :
        \E req \in {[name |-> name]} :
            /\ Ready(c)
            /\ WriteLockFree(c)
            /\ Arrive(c, "add_author", req, add_author_commit(DB, Handed, req))

\* add_author, line 39
AddAuthorRefresh(c) ==
    /\ inflight[c].pc = "add_author_refresh"
    /\ Resume(c, add_author_refresh(DB, inflight[c]))

\* add_book, line 45
AddBookGet(c) ==
    \E name \in BookNames, author_id \in AuthorIdInputs :
        \E req \in {[name |-> name, author_id |-> author_id]} :
            /\ Ready(c)
            /\ Arrive(c, "add_book", req, add_book_get(DB, Handed, req))

\* add_book, line 50
AddBookCommit(c) ==
    /\ inflight[c].pc = "add_book_commit"
    /\ Dirty(inflight[c].session) => WriteLockFree(c)
    /\ Resume(c, add_book_commit(DB, inflight[c]))

\* add_book, line 51
AddBookRefresh(c) ==
    /\ inflight[c].pc = "add_book_refresh"
    /\ Resume(c, add_book_refresh(DB, inflight[c]))

\* get_authors, line 57 in both revisions
GetAuthors(c) ==
    /\ Ready(c)
    /\ Arrive(c, "get_authors", <<>>,
              IF revision = "main" THEN get_authors(DB, SessionClass)
              ELSE get_authors_sample(DB))

\* get_books, line 62 in both revisions
GetBooks(c) ==
    /\ Ready(c)
    /\ Arrive(c, "get_books", <<>>,
              IF revision = "main" THEN get_books(DB, SessionClass)
              ELSE get_books_sample(DB))

\* created: the record an immediately preceding Create Author returned
GetAuthor(c) ==
    \E author_id \in AuthorIdInputs :
        \E req \in {[author_id |-> author_id,
                     created |-> IF last.op = "add_author" THEN last.body ELSE None]} :
            /\ Ready(c)
            /\ Arrive(c, "get_author", req, get_author(DB, author_id))

GetBook(c) ==
    \E book_id \in BookIdInputs :
        /\ Ready(c)
        /\ Arrive(c, "get_book", [book_id |-> book_id], get_book(DB, book_id))

\* author_details, line 84: the SELECT of the author
AuthorDetailsSelect(c) ==
    \E author_id \in AuthorIdInputs :
        /\ Ready(c)
        /\ Arrive(c, "author_details", [author_id |-> author_id],
                  author_details_select(DB, author_id))

\* author_details, line 84: the SELECT of the books
AuthorDetailsLoad(c) ==
    /\ inflight[c].pc = "author_details_load"
    /\ Resume(c, author_details_load(DB, inflight[c]))

\* book_details, line 92: the SELECT of the book
BookDetailsSelect(c) ==
    \E book_id \in BookIdInputs :
        /\ Ready(c)
        /\ Arrive(c, "book_details", [book_id |-> book_id],
                  book_details_select(DB, book_id))

\* book_details, line 92: the SELECT of the author
BookDetailsLoad(c) ==
    /\ inflight[c].pc = "book_details_load"
    /\ Resume(c, book_details_load(DB, inflight[c]))

AuthorUpdates ==
    [id : AuthorIdInputs, name : {None} \cup {Some(n) : n \in AuthorNames}]

\* update_author, line 102
UpdateAuthorGet(c) ==
    \E req \in AuthorUpdates :
        /\ Ready(c)
        /\ Arrive(c, "update_author", req,
                  IF revision = "main" THEN update_author_get(DB, Handed, req)
                  ELSE update_author_sample_get(DB, Handed, req))

\* update_author, line 108 (107 in the packaged revision)
UpdateAuthorCommit(c) ==
    /\ inflight[c].pc = "update_author_commit"
    /\ Dirty(inflight[c].session) => WriteLockFree(c)
    /\ Resume(c, update_author_commit(DB, inflight[c]))

\* update_author, line 109 (108)
UpdateAuthorRefresh(c) ==
    /\ inflight[c].pc = "update_author_refresh"
    /\ Resume(c, update_author_refresh(DB, inflight[c]))

BookUpdates ==
    [id : BookIdInputs,
     name : {None} \cup {Some(n) : n \in BookNames},
     author_id : {None} \cup {Some(a) : a \in AuthorIdInputs}]

\* update_book, line 115 (114 in the packaged revision)
UpdateBookGet(c) ==
    \E req \in BookUpdates :
        /\ Ready(c)
        /\ Arrive(c, "update_book", req,
                  IF revision = "main" THEN update_book_get(DB, Handed, req)
                  ELSE update_book_sample_get(DB, Handed, req))

\* update_book, line 119 (120)
UpdateBookAuthor(c) ==
    /\ inflight[c].pc = "update_book_author"
    /\ (revision = "sample" /\ Dirty(inflight[c].session)) => WriteLockFree(c)
    /\ Resume(c, IF revision = "main" THEN update_book_author(DB, inflight[c])
                 ELSE update_book_sample_author(DB, inflight[c]))

\* update_book, line 127 (124)
UpdateBookCommit(c) ==
    /\ inflight[c].pc = "update_book_commit"
    /\ Dirty(inflight[c].session) => WriteLockFree(c)
    /\ Resume(c, update_book_commit(DB, inflight[c]))

\* update_book, line 128 (125)
UpdateBookRefresh(c) ==
    /\ inflight[c].pc = "update_book_refresh"
    /\ Resume(c, update_book_refresh(DB, inflight[c]))

\* delete_author, line 134
DeleteAuthorGet(c) ==
    \E author_id \in AuthorIdInputs :
        /\ Ready(c)
        /\ Arrive(c, "delete_author", [author_id |-> author_id],
                  delete_author_get(DB, Handed, [author_id |-> author_id]))

\* delete_author, line 137
DeleteAuthorDelete(c) ==
    /\ inflight[c].pc = "delete_author_delete"
    /\ Resume(c, delete_author_delete(DB, inflight[c]))

\* delete_author, line 138
DeleteAuthorCommit(c) ==
    /\ inflight[c].pc = "delete_author_commit"
    /\ Dirty(inflight[c].session) => WriteLockFree(c)
    /\ Resume(c, delete_author_commit(DB, inflight[c]))

\* delete_book, line 143
DeleteBookGet(c) ==
    \E book_id \in BookIdInputs :
        /\ Ready(c)
        /\ Arrive(c, "delete_book", [book_id |-> book_id],
                  delete_book_get(DB, Handed, [book_id |-> book_id]))

\* delete_book, line 146
DeleteBookDelete(c) ==
    /\ inflight[c].pc = "delete_book_delete"
    /\ Resume(c, delete_book_delete(DB, inflight[c]))

\* delete_book, line 147
DeleteBookCommit(c) ==
    /\ inflight[c].pc = "delete_book_commit"
    /\ Dirty(inflight[c].session) => WriteLockFree(c)
    /\ Resume(c, delete_book_commit(DB, inflight[c]))

\* ----------------------------------------- requests, one after another
\* The client whose requests are handled one after another: each request is
\* handled to completion before the next one arrives.
Serial == 1

\* every request that writes, and process starts
Next ==
    \/ Startup
    \/ AddAuthorCommit(Serial)
    \/ AddAuthorRefresh(Serial)
    \/ AddBookGet(Serial)
    \/ AddBookCommit(Serial)
    \/ AddBookRefresh(Serial)
    \/ UpdateAuthorGet(Serial)
    \/ UpdateAuthorCommit(Serial)
    \/ UpdateAuthorRefresh(Serial)
    \/ UpdateBookGet(Serial)
    \/ UpdateBookAuthor(Serial)
    \/ UpdateBookCommit(Serial)
    \/ UpdateBookRefresh(Serial)
    \/ DeleteAuthorGet(Serial)
    \/ DeleteAuthorDelete(Serial)
    \/ DeleteAuthorCommit(Serial)
    \/ DeleteBookGet(Serial)
    \/ DeleteBookDelete(Serial)
    \/ DeleteBookCommit(Serial)

Spec == Init /\ [][Next]_vars

\* ------------------------------------------- the reads among the writes
\* every request that writes, and the reads by id and the two lists
NextReads ==
    \/ AddAuthorCommit(Serial)
    \/ AddAuthorRefresh(Serial)
    \/ AddBookGet(Serial)
    \/ AddBookCommit(Serial)
    \/ AddBookRefresh(Serial)
    \/ GetAuthors(Serial)
    \/ GetBooks(Serial)
    \/ GetAuthor(Serial)
    \/ GetBook(Serial)
    \/ UpdateAuthorGet(Serial)
    \/ UpdateAuthorCommit(Serial)
    \/ UpdateAuthorRefresh(Serial)
    \/ UpdateBookGet(Serial)
    \/ UpdateBookAuthor(Serial)
    \/ UpdateBookCommit(Serial)
    \/ UpdateBookRefresh(Serial)
    \/ DeleteAuthorGet(Serial)
    \/ DeleteAuthorDelete(Serial)
    \/ DeleteAuthorCommit(Serial)
    \/ DeleteBookGet(Serial)
    \/ DeleteBookDelete(Serial)
    \/ DeleteBookCommit(Serial)

SpecReads == Init /\ [][NextReads]_vars

\* The two reads that follow a relationship among the requests that write,
\* all of them running concurrently: the second SELECT of a read sees the
\* rows committed by then.
NextDetails ==
    \E c \in Clients :
        \/ AddAuthorCommit(c)
        \/ AddAuthorRefresh(c)
        \/ AddBookGet(c)
        \/ AddBookCommit(c)
        \/ AddBookRefresh(c)
        \/ AuthorDetailsSelect(c)
        \/ AuthorDetailsLoad(c)
        \/ BookDetailsSelect(c)
        \/ BookDetailsLoad(c)
        \/ UpdateAuthorGet(c)
        \/ UpdateAuthorCommit(c)
        \/ UpdateAuthorRefresh(c)
        \/ UpdateBookGet(c)
        \/ UpdateBookAuthor(c)
        \/ UpdateBookCommit(c)
        \/ UpdateBookRefresh(c)
        \/ DeleteAuthorGet(c)
        \/ DeleteAuthorDelete(c)
        \/ DeleteAuthorCommit(c)
        \/ DeleteBookGet(c)
        \/ DeleteBookDelete(c)
        \/ DeleteBookCommit(c)

SpecDetails == Init /\ [][NextDetails]_vars

\* ------------------------------ creates and deletes, with the id history
\* the creates and the deletes, with every id the store has given out
\* remembered
NextIds ==
    \/ AddAuthorCommit(Serial)
    \/ AddAuthorRefresh(Serial)
    \/ AddBookGet(Serial)
    \/ AddBookCommit(Serial)
    \/ AddBookRefresh(Serial)
    \/ DeleteAuthorGet(Serial)
    \/ DeleteAuthorDelete(Serial)
    \/ DeleteAuthorCommit(Serial)
    \/ DeleteBookGet(Serial)
    \/ DeleteBookDelete(Serial)
    \/ DeleteBookCommit(Serial)

InitIds == revision = "main" /\ Started({"responses", "ids"})

SpecIds == InitIds /\ [][NextIds]_vars

\* ------------------------------------------ requests that run concurrently
\* Each request has its own session and gives way to the other requests at
\* every await.  A read sees the rows committed so far (the sqlite3 driver
\* opens no transaction for a SELECT); a commit writes its session's changes
\* in one transaction.
NextConc ==
    \E c \in Clients :
        \/ AddAuthorCommit(c)
        \/ AddAuthorRefresh(c)
        \/ AddBookGet(c)
        \/ AddBookCommit(c)
        \/ AddBookRefresh(c)
        \/ UpdateAuthorGet(c)
        \/ UpdateAuthorCommit(c)
        \/ UpdateAuthorRefresh(c)
        \/ UpdateBookGet(c)
        \/ UpdateBookAuthor(c)
        \/ UpdateBookCommit(c)
        \/ UpdateBookRefresh(c)
        \/ DeleteAuthorGet(c)
        \/ DeleteAuthorDelete(c)
        \/ DeleteAuthorCommit(c)
        \/ DeleteBookGet(c)
        \/ DeleteBookDelete(c)
        \/ DeleteBookCommit(c)

\* the concurrent requests are those of src/main.py; only the store and the
\* status of each response are followed
InitConc == revision = "main" /\ Started({})

SpecConc == InitConc /\ [][NextConc]_vars

\* ------------------------------------------------ the request's session
\* who hands a request its session: "app" is get_db of src/models.py,
\* "tests" is get_test_db of tests/conftest.py, which overrides it
Harnesses == {"app", "tests"}

\* the rows the fixtures author1 and book1 create, in Latin letters
TestAuthor1 == "Miyazawa Kenji"
TestBook1 == "Ginga tetsudo no yoru"

\* a session as AsyncSession(engine) makes it: handed to no request yet,
\* nothing pending
OpenedSession == [uses |-> 0, pending |-> get_db]

\* (mutant) one session made at import time is handed to every request
SessOpenShared(c) ==
    /\ inflight[c].pc = "idle"
    /\ \A d \in Clients : d < c => inflight[d].pc # "idle"
    /\ sessions.started < MaxSessions
    /\ sessions.harness = "tests" => \A d \in Clients : inflight[d].pc = "idle"
    /\ sessions' = [sessions EXCEPT
            !.open = IF 1 \in DOMAIN @ THEN [@ EXCEPT ![1].uses = @ + 1]
                     ELSE (1 :> [OpenedSession EXCEPT !.uses = 1]) @@ @,
            !.started = @ + 1]
    /\ inflight' = [inflight EXCEPT ![c] = [pc |-> "handler", handle |-> 1]]
    /\ UNCHANGED <<revision, authors, books, last, issuedAuthorIds, issuedBookIds,
                   side, watch>>

\* The dependency is entered for a request of client c and its session
\* handed to the handler. get_db opens a new session; get_test_db yields the
\* db fixture's session, whatever it has served before. The clients being
\* alike, a request is taken as that of the first idle one. A test awaits one
\* request at a time.
SessOpen(c) ==
    LET h == IF sessions.harness = "app" THEN sessions.started + 1
             ELSE FixtureSession
    IN /\ inflight[c].pc = "idle"
       /\ \A d \in Clients : d < c => inflight[d].pc # "idle"
       /\ sessions.started < MaxSessions
       /\ sessions.harness = "tests" => \A d \in Clients : inflight[d].pc = "idle"
       /\ sessions' = [sessions EXCEPT
               !.open = IF sessions.harness = "app"
                        THEN (h :> [OpenedSession EXCEPT !.uses = 1]) @@ @
                        ELSE [@ EXCEPT ![h].uses = @ + 1],
               !.started = @ + 1]
       /\ inflight' = [inflight EXCEPT ![c] = [pc |-> "handler", handle |-> h]]
       /\ UNCHANGED <<revision, authors, books, last, issuedAuthorIds,
                      issuedBookIds, side, watch>>

\* The dependency is left after the handler returned or raised. get_db
\* leaves "async with AsyncSession(engine)", which closes the session;
\* get_test_db has nothing after its yield: the session stays open as the
\* handler left it. discarded: the close dropped something pending
SessClose(c) ==
    LET h == inflight[c].handle
        s == inflight[c].session
        closes == sessions.harness = "app"
        db == IF closes THEN SessionClose(DB, s) ELSE DB
    IN /\ inflight[c].pc = "returned"
       /\ authors' = db.authors
       /\ books' = db.books
       /\ sessions' = [sessions EXCEPT !.open =
               IF closes THEN [g \in DOMAIN @ \ {h} |-> @[g]]
               ELSE [@ EXCEPT ![h].pending = IF Dirty(s) THEN s ELSE EmptySession]]
       /\ inflight' = [inflight EXCEPT ![c] = Idle(inflight[c].status)]
       /\ last' = [op |-> "close", closed |-> closes,
                   status |-> inflight[c].status,
                   discarded |-> closes /\ Dirty(s)]
       /\ UNCHANGED <<revision, issuedAuthorIds, issuedBookIds, side, watch>>

NextSession ==
    \E c \in Clients :
        \/ SessOpen(c)
        \/ UpdateBookGet(c)
        \/ UpdateBookAuthor(c)
        \/ UpdateBookCommit(c)
        \/ UpdateBookRefresh(c)
        \/ DeleteAuthorGet(c)
        \/ DeleteAuthorDelete(c)
        \/ DeleteAuthorCommit(c)
        \/ SessClose(c)

\* the service of either revision as started, its session handles followed
InitSession == revision \in Revisions /\ Started({"sessions"})

\* a test of src/main.py after the fixtures author1 and book1, with the db
\* fixture's session open
InitFixture ==
    /\ revision = "main"
    /\ authors = (1 :> TestAuthor1)
    /\ books = (1 :> [name |-> TestBook1, author_id |-> Some(1)])
    /\ last = [op |-> "fixtures"]
    /\ issuedAuthorIds = {1}
    /\ issuedBookIds = {1}
    /\ inflight = [c \in Clients |-> Idle(0)]
    /\ sessions = [harness |-> "tests",
                   open |-> (FixtureSession :> OpenedSession), started |-> 0]
    /\ side = None
    /\ watch = {"sessions"}

SpecSession == InitSession /\ [][NextSession]_vars

SpecFixture == InitFixture /\ [][NextSession]_vars

\* ------------------------------------------ the two revisions side by side
\* Every request goes to src/main.py, whose store is authors and books, and
\* to src/sqlmodel_book_sample/main.py, whose store is side.db; each handles
\* it in a session of its own that get_db made, and both take their steps
\* together.
NextBoth ==
    \/ AddAuthorCommit(Serial)
    \/ AddAuthorRefresh(Serial)
    \/ AddBookGet(Serial)
    \/ AddBookCommit(Serial)
    \/ AddBookRefresh(Serial)
    \/ GetAuthors(Serial)
    \/ GetBooks(Serial)
    \/ GetAuthor(Serial)
    \/ GetBook(Serial)
    \/ AuthorDetailsSelect(Serial)
    \/ AuthorDetailsLoad(Serial)
    \/ BookDetailsSelect(Serial)
    \/ BookDetailsLoad(Serial)
    \/ UpdateAuthorGet(Serial)
    \/ UpdateAuthorCommit(Serial)
    \/ UpdateAuthorRefresh(Serial)
    \/ UpdateBookGet(Serial)
    \/ UpdateBookAuthor(Serial)
    \/ UpdateBookCommit(Serial)
    \/ UpdateBookRefresh(Serial)
    \/ DeleteAuthorGet(Serial)
    \/ DeleteAuthorDelete(Serial)
    \/ DeleteAuthorCommit(Serial)
    \/ DeleteBookGet(Serial)
    \/ DeleteBookDelete(Serial)
    \/ DeleteBookCommit(Serial)

\* both services were started on an empty store of their own
InitBoth ==
    LET db == init_db(EmptyDB)
    IN /\ revision = "main"
       /\ authors = db.authors
       /\ books = db.books
       /\ last = [op |-> "init_db", seeded |-> TRUE]
       /\ issuedAuthorIds = DOMAIN db.authors
       /\ issuedBookIds = DOMAIN db.books
       /\ inflight = [c \in Clients |-> Idle(0)]
       /\ sessions = NoSessions
       /\ side = [db |-> db, local |-> Idle(0),
                  reply |-> [op |-> "init_db", seeded |-> TRUE], found |-> db]
       /\ watch = {"responses", "side"}

SpecBoth == InitBoth /\ [][NextBoth]_vars

\* ======================================================== properties
\* In the runs that watch the responses, last is a response exactly in the
\* states that follow the handler's last step; last.found is the store the
\* request arrived at.
DBnext == [authors |-> authors', books |-> books']

\* the rows a request found on arrival, as a store
FoundDB(reply) == [authors |-> reply.found.authors, books |-> reply.found.books]

\* C1: in every state reached by handling requests one after another, each
\* to completion before the next starts, every persisted Book with a
\* non-null author_id has the id of a persisted Author.
BookAuthorExists ==
    \A b \in DOMAIN books :
        books[b].author_id # None => books[b].author_id[1] \in DOMAIN authors

\* an Update Book has just moved a Book to another persisted Author
BookAuthorExistsWitness ==
    /\ last.op = "update_book"
    /\ last.status = HTTP_200_OK
    /\ last.req.author_id # None
    /\ last.found.books[last.req.id].author_id # last.req.author_id
    /\ books[last.req.id].author_id = last.req.author_id
    /\ last.req.author_id[1] \in DOMAIN authors

\* C2: Create Book naming an author_id that no persisted Author has answers
\* 404 "Unknown author_id" and leaves the Authors and the Books as they were.
AddBookUnknownAuthor ==
    (last.op = "add_book" /\ last.req.author_id \notin DOMAIN last.found.authors)
        => /\ last.status = HTTP_404_NOT_FOUND
           /\ last.detail = "Unknown author_id"
           /\ last.body = None
           /\ DB = FoundDB(last)

\* a Create Book was refused for its author_id while Books are persisted
AddBookUnknownAuthorWitness ==
    /\ last.op = "add_book"
    /\ last.status = HTTP_404_NOT_FOUND
    /\ last.req.author_id \notin DOMAIN authors
    /\ DOMAIN books # {}

\* C3: a successful Delete Author(id) removes, in its one commit, the Author
\* and every Book whose author_id was id: until that step the store is as
\* the request found it; after it no Book names id, List Books (of either
\* revision, with either class of session) shows none of the removed Books
\* in what it answers and Get Book on each answers 404.
DeleteAuthorCascades ==
    [][(last'.op = "delete_author" /\ last'.status = HTTP_200_OK)
        => LET a == last'.req.author_id
               found == FoundDB(last')
               theirs == {b \in DOMAIN found.books : found.books[b].author_id = Some(a)}
               lists == {get_books(DBnext, class) : class \in SessionClasses}
                            \cup {get_books_sample(DBnext)}
           IN /\ a \in DOMAIN found.authors
              /\ DB = found
              /\ a \notin DOMAIN authors'
              /\ \A b \in DOMAIN books' : books'[b].author_id # Some(a)
              /\ get_books(DBnext, "sqlmodel").status = HTTP_200_OK
              /\ get_books_sample(DBnext).status = HTTP_200_OK
              /\ \A listed \in lists :
                    \A k \in 1 .. Len(listed.body) :
                        /\ listed.body[k].id \notin theirs
                        /\ listed.body[k].author_id # a
              /\ \A b \in theirs :
                    get_book(DBnext, b).status = HTTP_404_NOT_FOUND]_vars

\* a Delete Author has just taken Books away with the Author
DeleteAuthorCascadesWitness ==
    /\ last.op = "delete_author"
    /\ last.status = HTTP_200_OK
    /\ DOMAIN last.found.books \ DOMAIN books # {}
    /\ last.req.author_id \notin DOMAIN authors

\* C4: in both revisions, Update Book on an existing Book with a supplied
\* author_id that no persisted Author has answers 404 and leaves the Book's
\* name and author_id (and every other row) as they were, also when a name
\* came with it.
UpdateBookUnknownAuthor ==
    (/\ last.op = "update_book"
     /\ last.req.id \in DOMAIN last.found.books
     /\ last.req.author_id # None
     /\ last.req.author_id[1] \notin DOMAIN last.found.authors)
        => /\ last.status = HTTP_404_NOT_FOUND
           /\ last.detail = "Unknown book.author_id"
           /\ DB = FoundDB(last)
           /\ side.reply.status = HTTP_404_NOT_FOUND
           /\ side.reply.detail = "Unknown book.author_id"
           /\ side.db = FoundDB(side)

\* both revisions refused an Update Book that also carried a new name, which
\* the packaged revision had assigned in its session
UpdateBookUnknownAuthorWitness ==
    /\ last.op = "update_book"
    /\ last.status = HTTP_404_NOT_FOUND
    /\ last.detail = "Unknown book.author_id"
    /\ last.req.name # None
    /\ last.req.id \in DOMAIN books
    /\ books[last.req.id].name # last.req.name[1]
    /\ side.reply.pending
    /\ side.db.books[last.req.id].name # last.req.name[1]

\* C5: Update Author on an existing Author keeps the name when none is
\* supplied and stores the supplied name otherwise; the returned record is the
\* persisted one.
UpdateAuthorName ==
    (last.op = "update_author" /\ last.req.id \in DOMAIN last.found.authors)
        => LET id == last.req.id
           IN /\ last.status = HTTP_200_OK
              /\ id \in DOMAIN authors
              /\ last.req.name = None => authors[id] = last.found.authors[id]
              /\ last.req.name # None => authors[id] = last.req.name[1]
              /\ last.body = Some(AuthorGet(id, authors[id]))

\* an Update Author has just stored the supplied (here empty) name
UpdateAuthorNameWitness ==
    /\ last.op = "update_author"
    /\ last.status = HTTP_200_OK
    /\ last.req.name = Some("")
    /\ last.found.authors[last.req.id] # ""
    /\ authors[last.req.id] = ""
    /\ last.body = Some(AuthorGet(last.req.id, ""))

\* C6: Get Author on the id a Create Author has just returned answers the
\* record the Create returned.
CreateThenGetAuthor ==
    [][(/\ last.op = "add_author"
        /\ last.status = HTTP_200_OK
        /\ last'.op = "get_author"
        /\ last'.req.author_id = last.body[1].id)
        => /\ last'.status = HTTP_200_OK
           /\ last'.body = last.body
           /\ last'.req.created = last.body]_vars

\* a Get Author right after the Create Author of the same id
CreateThenGetAuthorWitness ==
    /\ last.op = "get_author"
    /\ last.req.created # None
    /\ last.req.created[1].id = last.req.author_id
    /\ last.status = HTTP_200_OK
    /\ last.body = last.req.created

\* C7 as stated: init_db on an empty author table leaves exactly one Author
\* (id 1) and exactly one Book (id 1, author_id 1).
SeedOneAuthorOneBook ==
    (last.op = "init_db" /\ last.seeded)
        => /\ DOMAIN authors = {1}
           /\ DOMAIN books = {1}
           /\ books[1].author_id = Some(1)

\* C7 (amended): init_db on an empty author table (the book table empty with
\* it) inserts exactly two seed Authors, ids 1 and 2, and exactly two seed
\* Books, Book 1 of Author 1 and Book 2 of Author 2.
SeedTwoAuthorsTwoBooks ==
    (last.op = "init_db" /\ last.seeded)
        => /\ authors = (1 :> SeedAuthor1) @@ (2 :> SeedAuthor2)
           /\ books = (1 :> [name |-> SeedBook1, author_id |-> Some(1)])
                      @@ (2 :> [name |-> SeedBook2, author_id |-> Some(2)])

\* init_db has just seeded the empty store
SeedTwoAuthorsTwoBooksWitness ==
    /\ last.op = "init_db"
    /\ last.seeded
    /\ Cardinality(DOMAIN authors) = 2
    /\ Cardinality(DOMAIN books) = 2

\* C8 as stated: the id given to a new Author (Book) differs from every id
\* given to an Author (Book) before, deleted ones included.
IdsNeverReused ==
    /\ (last.op = "add_author" /\ last.status = HTTP_200_OK)
            => last.body[1].id \notin last.found.issuedAuthorIds
    /\ (last.op = "add_book" /\ last.status = HTTP_200_OK)
            => last.body[1].id \notin last.found.issuedBookIds

\* C8 (amended): the id given to a new Author (Book) is chosen by the store
\* and not by the client: it is one more than the largest id persisted in
\* that table when the request arrives, and 1 for an empty table. It is the
\* id of no persisted Author (Book), and the new row is the only change.
IdsFreshAmongPersisted ==
    /\ (last.op = "add_author" /\ last.status = HTTP_200_OK)
            => LET id == last.body[1].id
                   found == last.found.authors
               IN /\ "id" \notin DOMAIN last.req
                  /\ id = IF DOMAIN found = {} THEN 1 ELSE Max(DOMAIN found) + 1
                  /\ id \notin DOMAIN found
                  /\ authors = found @@ (id :> last.req.name)
                  /\ books = last.found.books
    /\ (last.op = "add_book" /\ last.status = HTTP_200_OK)
            => LET id == last.body[1].id
                   found == last.found.books
               IN /\ "id" \notin DOMAIN last.req
                  /\ id = IF DOMAIN found = {} THEN 1 ELSE Max(DOMAIN found) + 1
                  /\ id \notin DOMAIN found
                  /\ books = found @@ (id :> [name |-> last.req.name,
                                               author_id |-> Some(last.req.author_id)])
                  /\ authors = last.found.authors

\* a new Book got the id that a deleted Book had, beside a persisted Book;
\* its Author is a created one who had got the id of a deleted seed Author
IdsFreshAmongPersistedWitness ==
    /\ last.op = "add_book"
    /\ last.status = HTTP_200_OK
    /\ last.body[1].id \in last.found.issuedBookIds
    /\ DOMAIN last.found.books # {}
    /\ last.req.author_id \in DOMAIN init_db(EmptyDB).authors
    /\ authors[last.req.author_id] \in AuthorNames

\* C9 as stated: every persisted Author has a non-empty name.
AuthorNameNonEmpty == \A a \in DOMAIN authors : authors[a] # ""

\* C9 (amended): every persisted Author has a name, which is a seed name or
\* the string a Create Author or Update Author request supplied, the empty
\* string included; an Update Author without a name stores no other value.
AuthorNameSupplied ==
    \A a \in DOMAIN authors : authors[a] \in AuthorNames \cup {SeedAuthor1, SeedAuthor2}

\* an Update Author without a name has left an empty name in place
AuthorNameSuppliedWitness ==
    /\ last.op = "update_author"
    /\ last.status = HTTP_200_OK
    /\ last.req.name = None
    /\ authors[last.req.id] = ""

\* C10: with requests interleaving at their store accesses, no Book is ever
\* persisted whose author_id names an Author that is not (or no longer)
\* persisted -- the existence check and the write behave as one transaction.
ConcNoBookOfDeletedAuthor ==
    \A b \in DOMAIN books :
        \A a \in AuthorIdInputs :
            books[b].author_id = Some(a) => a \in DOMAIN authors

\* C11: get_db hands every request a session opened for it at the start of
\* the request and held by no other request; no two requests in flight hold
\* the same session, no session serves a second handler invocation, the
\* handler keeps its session at every await, and the session is closed when
\* the handler has returned or raised (200, 404 or 500): the close can always
\* be taken, removes the handle and leaves the store as the handler's
\* commits left it, whatever was pending in the session.
SessionPerRequest ==
    [][/\ \A c, d \in Clients :
            (c # d /\ inflight'[c].pc # "idle" /\ inflight'[d].pc # "idle")
                => inflight'[c].handle # inflight'[d].handle
       /\ \A h \in DOMAIN sessions'.open :
            /\ sessions'.open[h].uses = 1
            /\ \E c \in Clients :
                  inflight'[c].pc # "idle" /\ inflight'[c].handle = h
       /\ \A c \in Clients :
            /\ (inflight[c].pc = "idle" /\ inflight'[c].pc # "idle")
                  => /\ inflight'[c].handle \notin DOMAIN sessions.open
                     /\ sessions'.open[inflight'[c].handle]
                            = [OpenedSession EXCEPT !.uses = 1]
            /\ (inflight[c].pc # "idle" /\ inflight'[c].pc # "idle")
                  => inflight'[c].handle = inflight[c].handle
            /\ inflight[c].pc = "returned" => ENABLED SessClose(c)
            /\ (inflight[c].pc # "idle" /\ inflight'[c].pc = "idle")
                  => /\ inflight[c].pc = "returned"
                     /\ inflight[c].handle \notin DOMAIN sessions'.open
                     /\ authors' = authors
                     /\ books' = books]_vars

\* an Update Book of the packaged revision had assigned a name in its
\* session when it raised 404 for its author_id; its session was closed on
\* leaving get_db and the assignment dropped, while another request was in
\* flight with a session of its own
SessionPerRequestWitness ==
    /\ last.op = "close"
    /\ last.closed
    /\ last.status = HTTP_404_NOT_FOUND
    /\ last.discarded
    /\ \E d \in Clients :
          inflight[d].pc \notin {"idle", "handler"} /\ inflight[d].handle \in DOMAIN sessions.open

\* C12: Get Author with Books answers what one look at the store shows, the
\* store as the request finds it or as it is when the answer is given: 404
\* "Unknown author_id" when no Author has the id; otherwise 200 with that
\* Author and the persisted Books whose author_id is the id, each once and no
\* other, and an empty list when it has none.
AuthorDetailsBooks ==
    last.op = "author_details"
        => \E db \in {FoundDB(last), DB} :
              LET id == last.req.author_id
                  body == last.body[1]
                  own == {b \in DOMAIN db.books : db.books[b].author_id = Some(id)}
              IN IF id \in DOMAIN db.authors
                 THEN /\ last.status = HTTP_200_OK
                      /\ body.id = id
                      /\ body.name = db.authors[id]
                      /\ Len(body.books) = Cardinality(own)
                      /\ {body.books[k] : k \in DOMAIN body.books}
                            = {BookGet(b, db.books[b]) : b \in own}
                 ELSE /\ last.status = HTTP_404_NOT_FOUND
                      /\ last.detail = "Unknown author_id"

\* C13 (as stated): in both revisions, an Update Book that answers 404 for
\* its author_id has assigned nothing to the Book in its session: neither
\* the new name nor the new author_id is pending when the handler raises.
UpdateBookChecksAuthorFirst ==
    (last.op = "update_book" /\ last.detail = "Unknown book.author_id")
        => ~last.pending

\* C14: an Update Book answered 200 leaves the targeted Book with each
\* supplied field set to the supplied value and each omitted field as it
\* was stored, under the same id; no Book is added or removed, every other
\* Book and every Author is as before; the body is the Book as stored.
UpdateBookOnlySupplied ==
    (last.op = "update_book" /\ last.status = HTTP_200_OK)
        => LET req == last.req
               found == FoundDB(last)
           IN /\ req.id \in DOMAIN found.books
              /\ DOMAIN books = DOMAIN found.books
              /\ books[req.id].name =
                    IF req.name # None THEN req.name[1]
                    ELSE found.books[req.id].name
              /\ books[req.id].author_id =
                    IF req.author_id # None THEN req.author_id
                    ELSE found.books[req.id].author_id
              /\ \A b \in DOMAIN books \ {req.id} : books[b] = found.books[b]
              /\ authors = found.authors
              /\ last.body = Some(BookGet(req.id, books[req.id]))

\* an author_id-only update moved a Book to another Author while a second
\* Book was stored: the Book kept its seeded name
UpdateBookOnlySuppliedWitness ==
    /\ last.op = "update_book"
    /\ last.status = HTTP_200_OK
    /\ last.req.name = None
    /\ last.req.author_id = Some(2)
    /\ last.req.id = 1
    /\ last.found.books[1].author_id = Some(1)
    /\ books[1] = [name |-> SeedBook1, author_id |-> Some(2)]
    /\ 2 \in DOMAIN books

\* C15: a start of the process that finds at least one Author adds no
\* Author and no Book and leaves every row as it was; so does every start
\* that directly follows a start.
InitDbIdempotent ==
    [][last'.op = "init_db"
        => /\ DOMAIN authors # {} => (authors' = authors /\ books' = books)
           /\ last.op = "init_db" => (authors' = authors /\ books' = books)]_vars

\* the process was started again on a store that requests had changed to one
\* Author without Books: nothing was seeded
InitDbIdempotentWitness ==
    /\ last.op = "init_db"
    /\ ~last.seeded
    /\ Cardinality(DOMAIN authors) = 1
    /\ books = <<>>

\* C16: whatever requests have been handled since the seeding, every
\* persisted Book has an author_id, and a Get Book with Author on a Book it
\* finds answers 200 with the Author whose id is the Book's author_id: the
\* author of the answer is never absent.
BookAuthorNeverAbsent ==
    /\ \A b \in DOMAIN books : books[b].author_id # None
    /\ (last.op = "book_details" /\ last.req.book_id \in DOMAIN last.found.books)
          => /\ last.status = HTTP_200_OK
             /\ last.body[1].author_id = last.found.books[last.req.book_id].author_id[1]
             /\ last.body[1].author # None
             /\ last.body[1].author[1].id = last.body[1].author_id

\* C17: a Delete Author on the id of a persisted Author answers 200 and
\* removes that Author and the Books with that author_id, nothing else:
\* every other Author and every Book of another Author stays as it was. A
\* Delete Author or Delete Book on an id no row has answers 404 and changes
\* no row.
DeleteAuthorFrame ==
    LET found == FoundDB(last)
    IN /\ last.op = "delete_author"
            => LET id == last.req.author_id
               IN IF id \in DOMAIN found.authors
                  THEN /\ last.status = HTTP_200_OK
                       /\ authors = [a \in DOMAIN found.authors \ {id}
                                        |-> found.authors[a]]
                       /\ books = [b \in {b \in DOMAIN found.books :
                                            found.books[b].author_id # Some(id)}
                                     |-> found.books[b]]
                  ELSE /\ last.status = HTTP_404_NOT_FOUND
                       /\ last.detail = "Unknown author_id"
                       /\ DB = found
       /\ (last.op = "delete_book" /\ last.req.book_id \notin DOMAIN found.books)
            => /\ last.status = HTTP_404_NOT_FOUND
               /\ last.detail = "Unknown book_id"
               /\ DB = found

\* an Author was deleted with a Book of its own while the other Author and
\* that Author's Book stayed
DeleteAuthorFrameWitness ==
    /\ last.op = "delete_author"
    /\ last.status = HTTP_200_OK
    /\ \E b \in DOMAIN last.found.books :
          last.found.books[b].author_id = Some(last.req.author_id)
    /\ Cardinality(DOMAIN authors) = 1
    /\ Cardinality(DOMAIN books) = 1

\* what a client sees of a response
Seen(reply) ==
    IF "status" \in DOMAIN reply
    THEN [op |-> reply.op, req |-> reply.req, status |-> reply.status,
          detail |-> reply.detail, body |-> reply.body]
    ELSE reply

\* C18: fed the same requests from the same store, each request in a session
\* of its own, src/main.py and src/sqlmodel_book_sample/main.py give the
\* same response to every request (status, detail and record) and hold the
\* same Authors and Books after every request.
RevisionsAgree ==
    /\ Seen(side.reply) = Seen(last)
    /\ side.db = DB
====
